---- MODULE Spec2Model ----
(***************************************************************************)
(* A model of typo/app.py: the in-memory post collection and customization *)
(* record, the two JSON files that persist them, the upload folder, and    *)
(* the request handlers that act on them.                                  *)
(***************************************************************************)
EXTENDS Integers, Sequences, FiniteSets, TLC

VARIABLES
    posts,               \* app.py:192  the module-level list of BlogPost objects
    posts_file,          \* the file at POSTS_FILE (app.py:37)
    customization,       \* app.py:228  the module-level BlogCustomization
    customization_file,  \* the file at CUSTOMIZATION_FILE (app.py:195)
    uploads,             \* names of the files in app.config['UPLOAD_FOLDER']
    now,                 \* the reading datetime.now() returns, in microsecond ticks
    resp,                \* the response of the last request handled
    pc,                  \* "down": not imported yet, "up": serving, "crashed": import raised
    threads              \* the request each thread of the server is handling

vars == <<posts, posts_file, customization, customization_file, uploads, now, resp,
          pc, threads>>

----------------------------------------------------------------------------
(* Bounds of the model.                                                    *)

\* requests that create a post are taken while the collection holds fewer
\* than MaxPosts posts, and fewer than MaxListed in the create scenario
MaxPosts == 2
MaxListed == 3
\* datetime.now() returns one of the readings 1..MaxClock
MaxClock == 2
\* the threads of the server take at most MaxRequests requests
MaxRequests == 2

----------------------------------------------------------------------------
(* Python values.                                                          *)

\* Python's None (JSON null); a token outside the strings the requests carry
None == "<None>"

\* bool(v) for v a str or None: None and '' are falsy
Truthy(v) == v # None /\ v # ""

\* dict.get(key) where dict.get(key, default) is meant: an absent key yields
\* None instead of the default
GetOr_without_default(d, k, default) == IF k \in DOMAIN d THEN d[k] ELSE None

\* dict.get(key, default)
GetOr(d, k, default) == IF k \in DOMAIN d THEN d[k] ELSE default

\* dict.get(key)
Get(d, k) == GetOr(d, k, None)

\* all dicts with keys among Keys and values among Vals
Dicts(Keys, Vals) == UNION {[K -> Vals] : K \in SUBSET Keys}

\* ''.join(chars)
RECURSIVE Join(_)
Join(s) == IF s = <<>> THEN "" ELSE Head(s) \o Join(Tail(s))

\* str(datetime.now().timestamp()) at reading t
TimestampStr(t) == "1761746400.00000" \o ToString(t)

\* datetime.now().isoformat() at reading t
IsoFormat(t) == "2025-10-29T14:00:00.00000" \o ToString(t)

\* datetime.now().strftime('%Y%m%d-%H%M%S'): every reading of the model lies
\* within the same second
StrfTime(t) == "20251029-140000"

----------------------------------------------------------------------------
(* Record types.                                                           *)

\* BlogCustomization.__init__
BlogCustomization == [header_image |-> None, bg_style |-> "gradient1"]

\* BlogCustomization.to_dict
customization_to_dict(c) ==
    [header_image |-> c.header_image, bg_style |-> c.bg_style]

\* BlogCustomization.from_dict
customization_from_dict(data) ==
    [header_image |-> Get(data, "header_image"),
     bg_style     |-> GetOr(data, "bg_style", "gradient1")]

\* BlogPost.__init__: a missing id is generated from one reading of the
\* clock, t_id, and a missing created_at from a later one, t_created
BlogPost(title, content, id, created_at, image_path, t_id, t_created) ==
    [id         |-> IF Truthy(id) THEN id ELSE TimestampStr(t_id),
     title      |-> title,
     content    |-> content,
     created_at |-> IF Truthy(created_at) THEN created_at
                    ELSE IsoFormat(t_created),
     image_path |-> image_path]

\* the readings of the clock BlogPost.__init__ may take when the clock
\* stands at t: the clock is read only for a missing id or created_at, and
\* it never goes back
init_readings(id, created_at, t) ==
    {r \in (t..MaxClock) \X (t..MaxClock) :
        /\ r[1] <= r[2]
        /\ Truthy(id) => r[1] = t
        /\ Truthy(created_at) => r[2] = r[1]}

\* to_dict writing the image path under the key 'image'
to_dict_wrong_key(p) ==
    [id         |-> p.id,
     title      |-> p.title,
     content    |-> p.content,
     created_at |-> p.created_at,
     image      |-> p.image_path]

\* BlogPost.to_dict
to_dict(p) ==
    [id         |-> p.id,
     title      |-> p.title,
     content    |-> p.content,
     created_at |-> p.created_at,
     image_path |-> p.image_path]

\* data['title'] or data['content'] raises KeyError
from_dict_raises(data) == ~({"title", "content"} \subseteq DOMAIN data)

\* BlogPost.from_dict (when it does not raise), the constructor reading
\* the clock at t_id and t_created
from_dict(data, t_id, t_created) ==
    BlogPost(data["title"], data["content"], Get(data, "id"),
             Get(data, "created_at"), Get(data, "image_path"), t_id, t_created)

----------------------------------------------------------------------------
(* JSON files.  A file is absent, or holds bytes that do not decode as text *)
(* in the encoding open() reads with, or text that is not JSON, or a JSON  *)
(* value (data).                                                           *)

MissingFile == [exists |-> FALSE, decodes |-> FALSE, valid |-> FALSE, data |-> <<>>]
UndecodableFile == [exists |-> TRUE, decodes |-> FALSE, valid |-> FALSE, data |-> <<>>]
CorruptFile == [exists |-> TRUE, decodes |-> TRUE, valid |-> FALSE, data |-> <<>>]
JsonFile(v) == [exists |-> TRUE, decodes |-> TRUE, valid |-> TRUE, data |-> v]

\* load_posts raises: json.load reads bytes that do not decode, which raises
\* UnicodeDecodeError and not the JSONDecodeError the except clause names, or
\* an element of a valid array makes from_dict raise
load_posts_raises(f) ==
    /\ f.exists
    /\ \/ ~f.decodes
       \/ f.valid /\ \E i \in 1..Len(f.data) : from_dict_raises(f.data[i])

\* the readings of the clock the constructors of the elements of q may
\* take, one pair for each element in order, when the clock stands at t; an
\* element that makes from_dict raise ends the construction before its
\* constructor is called
RECURSIVE element_readings(_, _)
element_readings(q, t) ==
    IF q = <<>> \/ from_dict_raises(Head(q)) THEN {<<>>}
    ELSE UNION {{<<r>> \o rest : rest \in element_readings(Tail(q), r[2])} :
                  r \in init_readings(Get(Head(q), "id"),
                                      Get(Head(q), "created_at"), t)}

\* the readings of the clock load_posts may take when the clock stands at t
load_readings(f, t) ==
    IF f.exists /\ f.valid THEN element_readings(f.data, t) ELSE {<<>>}

\* where the clock stands after the readings ts taken from t on
last_reading(ts, t) == IF ts = <<>> THEN t ELSE ts[Len(ts)][2]

\* load_posts (when it does not raise), the constructor of element i reading
\* the clock at ts[i]
load_posts(f, ts) ==
    IF ~f.exists THEN <<>>
    ELSE IF ~f.valid THEN <<>>
    ELSE [i \in 1..Len(f.data) |-> from_dict(f.data[i], ts[i][1], ts[i][2])]

\* save_posts called before the collection is changed: the file misses the
\* last post
save_posts_stale(ps) == JsonFile([i \in 1..(Len(ps) - 1) |-> to_dict(ps[i])])

\* save_posts: the file save_posts(ps) leaves behind
save_posts(ps) == JsonFile([i \in 1..Len(ps) |-> to_dict(ps[i])])

\* load_customization raises: json.load reads bytes that do not decode
load_customization_raises(f) == f.exists /\ ~f.decodes

\* load_customization (when it does not raise)
load_customization(f) ==
    IF f.exists
    THEN IF f.valid THEN customization_from_dict(f.data) ELSE BlogCustomization
    ELSE BlogCustomization

\* save_customization: the file save_customization(c) leaves behind
save_customization(c) == JsonFile(customization_to_dict(c))


----------------------------------------------------------------------------
(* Upload validator.  A filename is a sequence of one-character strings.   *)

\* ALLOWED_EXTENSIONS
ALLOWED_EXTENSIONS ==
    {<<"p", "n", "g">>, <<"j", "p", "g">>, <<"j", "p", "e", "g">>, <<"g", "i", "f">>}

\* the ASCII capital letters and, at the same index, their small letters
Capitals ==
    <<"A", "B", "C", "D", "E", "F", "G", "H", "I", "J", "K", "L", "M",
      "N", "O", "P", "Q", "R", "S", "T", "U", "V", "W", "X", "Y", "Z">>
Smalls ==
    <<"a", "b", "c", "d", "e", "f", "g", "h", "i", "j", "k", "l", "m",
      "n", "o", "p", "q", "r", "s", "t", "u", "v", "w", "x", "y", "z">>

\* str.lower on the ASCII capital letters: each one's small letter
LowerOf ==
    [c \in {Capitals[i] : i \in 1..Len(Capitals)} |->
        Smalls[CHOOSE i \in 1..Len(Capitals) : Capitals[i] = c]]

\* str.lower on one ASCII character
LowerChar(c) == IF c \in DOMAIN LowerOf THEN LowerOf[c] ELSE c

\* str.lower
Lower(s) == [i \in 1..Len(s) |-> LowerChar(s[i])]

\* the index of the last '.' of the filename, 0 when it has none
LastDot(s) ==
    LET dots == {i \in 1..Len(s) : s[i] = "."}
    IN  IF dots = {} THEN 0 ELSE CHOOSE i \in dots : \A j \in dots : j <= i

\* allowed_file
allowed_file(filename) ==
    /\ LastDot(filename) # 0
    /\ Lower(SubSeq(filename, LastDot(filename) + 1, Len(filename)))
           \in ALLOWED_EXTENSIONS

\* str.lstrip(' ')
RECURSIVE DropSpaces(_)
DropSpaces(s) ==
    IF s # <<>> /\ Head(s) = " " THEN DropSpaces(Tail(s)) ELSE s

\* '_'.join(s.split()) for s without leading whitespace
RECURSIVE JoinWords(_)
JoinWords(s) ==
    IF s = <<>> THEN <<>>
    ELSE IF Head(s) = " "
         THEN LET r == DropSpaces(s)
              IN  IF r = <<>> THEN <<>> ELSE <<"_">> \o JoinWords(r)
         ELSE <<Head(s)>> \o JoinWords(Tail(s))

\* str.strip('._')
RECURSIVE StripDots(_)
StripDots(s) ==
    IF s = <<>> THEN <<>>
    ELSE IF Head(s) \in {".", "_"} THEN StripDots(Tail(s))
    ELSE IF s[Len(s)] \in {".", "_"} THEN StripDots(SubSeq(s, 1, Len(s) - 1))
    ELSE s

\* werkzeug's secure_filename on the model's alphabet (ASCII letters and
\* digits, '.', '_', '-', '/', ' '): path separators become spaces, runs of
\* whitespace become one '_', and leading and trailing '.' and '_' go
secure_filename(filename) ==
    LET spaced == [i \in 1..Len(filename) |->
                      IF filename[i] = "/" THEN " " ELSE filename[i]]
    IN  StripDots(JoinWords(DropSpaces(spaced)))

\* an upload field of a multipart form: absent, or a file with a filename
NoFile == [present |-> FALSE, filename |-> <<>>]
File(name) == [present |-> TRUE, filename |-> name]

\* 'image' in request.files, and the FileStorage is truthy (has a filename)
has_file(file) == file.present /\ file.filename # <<>>

\* the name create_post and update_post_submit store an image under
post_image_name(file, t) ==
    StrfTime(t) \o "-" \o Join(secure_filename(file.filename))

\* the name save_customization_route stores a header image under
header_image_name(file, t) ==
    "header-" \o StrfTime(t) \o "-" \o Join(secure_filename(file.filename))

\* the readings of the clock a handler may take for the name of an upload
\* when the clock stands at t: it reads the clock only when it stores a file
upload_readings(stored, t) == IF stored THEN t..MaxClock ELSE {t}

\* the relative path a record stores for a file of the upload folder
upload_path(name) == "uploads/" \o name

\* os.remove(old_path) guarded by os.path.exists(old_path), for old_path the
\* join of app.static_folder and a stored relative path: with the upload
\* folder at static/uploads the path names the file of that name in it
remove_if_exists(files, path) == {n \in files : upload_path(n) # path}

----------------------------------------------------------------------------
(* Requests and responses.                                                 *)

\* a response: the handler that produced it (the endpoint record_metrics
\* labels it with), its status code and its body
Resp(route, status, body) == [route |-> route, status |-> status, body |-> body]

\* no request has been handled since the clock last advanced
NoResp == Resp("none", 0, [none |-> TRUE])

\* no request has been handled since the module was imported
Imported == Resp("import", 0, [none |-> TRUE])

\* handle_exception: the umbrella handler registered for Exception
handle_exception(route) == Resp(route, 500, [error |-> "Internal server error"])

\* next((post for post in posts if post.id == post_id), None): the index of
\* the first post with the id, 0 for None
find_post(ps, post_id) ==
    LET hits == {i \in 1..Len(ps) : ps[i].id = post_id}
    IN  IF hits = {} THEN 0 ELSE CHOOSE i \in hits : \A j \in hits : i <= j

\* list.reverse() before list.append(post): the new post is last, the posts
\* already there are turned round
list_append_reversed(ps, p) ==
    Append([i \in 1..Len(ps) |-> ps[Len(ps) + 1 - i]], p)

\* list.append(post)
list_append(ps, p) == Append(ps, p)

\* list.insert(0, post)
list_insert_first(ps, p) == <<p>> \o ps

\* list.remove(post) for the post at index i
remove_at(ps, i) == SubSeq(ps, 1, i - 1) \o SubSeq(ps, i + 1, Len(ps))

\* The body of an API request: no body at all, text that is not JSON, the
\* JSON value null, or a JSON object.
AbsentBody == [kind |-> "absent", obj |-> <<>>]
MalformedBody == [kind |-> "malformed", obj |-> <<>>]
NullBody == [kind |-> "null", obj |-> <<>>]
ObjectBody(d) == [kind |-> "object", obj |-> d]

\* request.get_json(): the outcomes it can have.  On text that is not JSON
\* it raises an HTTP error.  On a request without a body it raises one when
\* the request is labelled as JSON (the empty text is not JSON) and, when it
\* is not, raises or returns None depending on the framework's version.  The
\* raise reaches handle_exception, registered for Exception.
get_json(body) ==
    CASE body.kind = "absent" ->
             {[raised |-> TRUE, isnone |-> TRUE, obj |-> <<>>],
              [raised |-> FALSE, isnone |-> TRUE, obj |-> <<>>]}
      [] body.kind = "malformed" ->
             {[raised |-> TRUE, isnone |-> TRUE, obj |-> <<>>]}
      [] body.kind = "null" ->
             {[raised |-> FALSE, isnone |-> TRUE, obj |-> <<>>]}
      [] OTHER ->
             {[raised |-> FALSE, isnone |-> FALSE, obj |-> body.obj]}

\* `not data` for the value get_json returned
not_data(j) == j.isnone \/ DOMAIN j.obj = {}


----------------------------------------------------------------------------
(* The inputs the requests are drawn from.                                 *)

Titles == {"T1"}
Contents == {"C1"}

\* JSON objects of API requests: title absent, null or a string, and content
\* absent or a string; or both null
ApiObjects ==
    {d \in Dicts({"title", "content"}, Titles \cup Contents \cup {None}) :
        /\ "title" \in DOMAIN d => d["title"] \in Titles \cup {None}
        /\ "content" \in DOMAIN d => d["content"] \in Contents}
    \cup {[title |-> None, content |-> None]}

Bodies == {AbsentBody, MalformedBody, NullBody} \cup {ObjectBody(d) : d \in ApiObjects}

\* request.form of form requests: each field absent or a string
Forms ==
    {d \in Dicts({"title", "content"}, Titles \cup Contents) :
        /\ "title" \in DOMAIN d => d["title"] \in Titles
        /\ "content" \in DOMAIN d => d["content"] \in Contents}

\* upload fields: none, an empty file field, an image, a disallowed type
Files ==
    {NoFile, File(<<>>), File(<<"a", ".", "P", "N", "G">>),
     File(<<"b", ".", "t", "x", "t">>)}

\* a request without an upload field
NoFiles == {NoFile}

\* the bg_style field of the customize form: absent, empty or a style
BgStyles == {None, "", "gradient2"}

\* the forms of the upload scenario: content filled in, title filled in or not
UploadForms == {f \in Forms : "content" \in DOMAIN f}

\* the bodies of the upload scenario: null, or an object with at most a title
UploadBodies ==
    {NullBody} \cup {ObjectBody(d) : d \in {o \in ApiObjects : DOMAIN o \subseteq {"title"}}}

\* posts files found at start-up hold at most MaxFileLen elements
MaxFileLen == 2

\* elements of posts files found at start-up: written by save_posts, written
\* by hand without id and created_at, with a null id, lacking content,
\* lacking title
FileDicts ==
    {to_dict(BlogPost("T1", "C1", "7", "2025-01-01T00:00:00", None, 1, 1)),
     [title |-> "T1", content |-> "C1"],
     [id |-> None, title |-> None, content |-> "C1", image_path |-> "uploads/x.png"],
     [id |-> "8", title |-> "T1"],
     [id |-> "9", content |-> "C1"]}

\* sequences of FileDicts of length at most n
RECURSIVE FileSeqs(_)
FileSeqs(n) ==
    IF n = 0 THEN {<<>>}
    ELSE LET shorter == FileSeqs(n - 1)
         IN  shorter \cup {Append(q, d) : q \in shorter, d \in FileDicts}

\* posts files found at start-up
PostsFiles ==
    {MissingFile, UndecodableFile, CorruptFile}
    \cup {JsonFile(q) : q \in FileSeqs(MaxFileLen)}

\* customization files found at start-up
CustomizationFiles ==
    {MissingFile, UndecodableFile, CorruptFile, JsonFile(<<>>),
     JsonFile([bg_style |-> "gradient2"]),
     JsonFile([header_image |-> None, bg_style |-> None]),
     JsonFile([header_image |-> "uploads/h.png"]),
     JsonFile([header_image |-> "uploads/h.png", bg_style |-> "gradient3"])}

\* the ids requests name: every id the clock can generate, and one it cannot
PostIds == {TimestampStr(t) : t \in 1..MaxClock} \cup {"nope"}

----------------------------------------------------------------------------
(* Request handlers.                                                       *)

\* [post.to_dict() for post in posts]: the full listing
listing(ps) == [i \in 1..Len(ps) |-> to_dict(ps[i])]

\* GET /api/posts
get_posts ==
    /\ pc = "up"
    /\ resp' = Resp("get_posts", 200, [list |-> listing(posts)])
    /\ UNCHANGED <<threads, posts, posts_file, customization, customization_file,
                   uploads, now, pc>>

\* what GET /api/posts/<post_id> answers when the collection is ps
get_post_response(ps, post_id) ==
    LET i == find_post(ps, post_id)
    IN  IF i = 0
        THEN Resp("get_post", 404, [error |-> "Post not found"])
        ELSE Resp("get_post", 200, to_dict(ps[i]))

\* GET /api/posts/<post_id>
get_post(post_id) ==
    /\ pc = "up"
    /\ resp' = get_post_response(posts, post_id)
    /\ UNCHANGED <<threads, posts, posts_file, customization, customization_file,
                   uploads, now, pc>>

\* GET /posts/<post_id>/edit
edit_post_page(post_id) ==
    /\ pc = "up"
    /\ LET i == find_post(posts, post_id)
       IN  resp' = IF i = 0
                   THEN Resp("edit_post_page", 404, [text |-> "Post not found!"])
                   ELSE Resp("edit_post_page", 200, [template |-> "edit.html",
                                   post |-> to_dict(posts[i])])
    /\ UNCHANGED <<threads, posts, posts_file, customization, customization_file,
                   uploads, now, pc>>

\* POST /api/posts
create_post_api(body) ==
    /\ pc = "up"
    /\ \E j \in get_json(body) :
         IF j.raised
         THEN /\ resp' = handle_exception("create_post_api")
              /\ UNCHANGED <<posts, posts_file, now>>
         ELSE IF not_data(j) \/ "title" \notin DOMAIN j.obj
                             \/ "content" \notin DOMAIN j.obj
         THEN /\ resp' = Resp("create_post_api", 400, [error |-> "Title and content are required"])
              /\ UNCHANGED <<posts, posts_file, now>>
         ELSE \E r \in init_readings(None, None, now) :
              LET new_post == BlogPost(j.obj["title"], j.obj["content"],
                                       None, None, None, r[1], r[2])
              IN  /\ posts' = list_append(posts, new_post)
                  /\ posts_file' = save_posts(posts')
                  /\ now' = r[2]
                  /\ resp' = Resp("create_post_api", 201, to_dict(new_post))
    /\ UNCHANGED <<threads, customization, customization_file, uploads, pc>>

\* PUT /api/posts/<post_id> that also assigns post.image_path from
\* data.get('image_path')
update_post_assigns_image_path(post_id, body) ==
    /\ pc = "up"
    /\ \E j \in get_json(body) :
         LET i == find_post(posts, post_id)
         IN  IF j.raised
             THEN /\ resp' = handle_exception("update_post")
                  /\ UNCHANGED <<posts, posts_file>>
             ELSE IF i = 0
             THEN /\ resp' = Resp("update_post", 404, [error |-> "Post not found"])
                  /\ UNCHANGED <<posts, posts_file>>
             ELSE IF j.isnone
             THEN /\ resp' = handle_exception("update_post")
                  /\ UNCHANGED <<posts, posts_file>>
             ELSE /\ posts' = [posts EXCEPT
                                 ![i].title = GetOr(j.obj, "title", @),
                                 ![i].content = GetOr(j.obj, "content", @),
                                 ![i].image_path = Get(j.obj, "image_path")]
                  /\ posts_file' = save_posts(posts')
                  /\ resp' = Resp("update_post", 200, to_dict(posts'[i]))
    /\ UNCHANGED <<threads, customization, customization_file, uploads, now, pc>>

\* PUT /api/posts/<post_id>
update_post(post_id, body) ==
    /\ pc = "up"
    /\ \E j \in get_json(body) :
         LET i == find_post(posts, post_id)
         IN  IF j.raised
             THEN /\ resp' = handle_exception("update_post")
                  /\ UNCHANGED <<posts, posts_file>>
             ELSE IF i = 0
             THEN /\ resp' = Resp("update_post", 404, [error |-> "Post not found"])
                  /\ UNCHANGED <<posts, posts_file>>
             ELSE IF j.isnone
             THEN \* data.get on None raises AttributeError
                  /\ resp' = handle_exception("update_post")
                  /\ UNCHANGED <<posts, posts_file>>
             ELSE /\ posts' = [posts EXCEPT
                                 ![i].title = GetOr(j.obj, "title", @),
                                 ![i].content = GetOr(j.obj, "content", @)]
                  /\ posts_file' = save_posts(posts')
                  /\ resp' = Resp("update_post", 200, to_dict(posts'[i]))
    /\ UNCHANGED <<threads, customization, customization_file, uploads, now, pc>>

\* DELETE /api/posts/<post_id>
delete_post_api(post_id) ==
    /\ pc = "up"
    /\ LET i == find_post(posts, post_id)
       IN  IF i = 0
           THEN /\ resp' = Resp("delete_post_api", 404, [error |-> "Post not found"])
                /\ UNCHANGED <<posts, posts_file>>
           ELSE /\ posts' = remove_at(posts, i)
                /\ posts_file' = save_posts(posts')
                /\ resp' = Resp("delete_post_api", 200, [message |-> "Post deleted successfully"])
    /\ UNCHANGED <<threads, customization, customization_file, uploads, now, pc>>

\* POST /posts/<post_id>/delete
delete_post(post_id) ==
    /\ pc = "up"
    /\ LET i == find_post(posts, post_id)
       IN  IF i = 0
           THEN /\ resp' = Resp("delete_post", 404, [text |-> "Post not found!"])
                /\ UNCHANGED <<posts, posts_file>>
           ELSE /\ posts' = remove_at(posts, i)
                /\ posts_file' = save_posts(posts')
                /\ resp' = Resp("delete_post", 302, [redirect |-> "feed"])
    /\ UNCHANGED <<threads, customization, customization_file, uploads, now, pc>>

\* POST /posts/create
create_post(form, file) ==
    /\ pc = "up"
    /\ LET stored == has_file(file) /\ allowed_file(file.filename)
       IN  \E t \in upload_readings(stored, now) :
           \E r \in init_readings(None, None, t) :
           LET filename == post_image_name(file, t)
               image == IF stored THEN upload_path(filename) ELSE None
               new_post == BlogPost(Get(form, "title"), Get(form, "content"),
                                    None, None, image, r[1], r[2])
           IN  /\ uploads' = IF stored THEN uploads \cup {filename} ELSE uploads
               /\ posts' = list_insert_first(posts, new_post)
               /\ posts_file' = save_posts(posts')
               /\ now' = r[2]
               /\ resp' = Resp("create_post", 302, [redirect |-> "feed"])
    /\ UNCHANGED <<threads, customization, customization_file, pc>>

\* POST /posts/<post_id>/update
update_post_submit(post_id, form, file) ==
    /\ pc = "up"
    /\ LET i == find_post(posts, post_id)
       IN  IF i = 0
           THEN /\ resp' = Resp("update_post_submit", 404, [text |-> "Post not found!"])
                /\ UNCHANGED <<posts, posts_file, uploads, now>>
           ELSE LET stored == has_file(file) /\ allowed_file(file.filename)
                IN  \E t \in upload_readings(stored, now) :
                LET filename == post_image_name(file, t)
                    kept == IF Truthy(posts[i].image_path)
                            THEN remove_if_exists(uploads, posts[i].image_path)
                            ELSE uploads
                IN  /\ uploads' = IF stored THEN kept \cup {filename} ELSE uploads
                    /\ now' = t
                    /\ posts' = [posts EXCEPT
                                   ![i].title = GetOr(form, "title", @),
                                   ![i].content = GetOr(form, "content", @),
                                   ![i].image_path =
                                       IF stored THEN upload_path(filename) ELSE @]
                    /\ posts_file' = save_posts(posts')
                    /\ resp' = Resp("update_post_submit", 302, [redirect |-> "feed"])
    /\ UNCHANGED <<threads, customization, customization_file, pc>>

\* POST /customize
save_customization_route(file, bg_style) ==
    /\ pc = "up"
    /\ LET stored == has_file(file) /\ allowed_file(file.filename)
       IN  \E t \in upload_readings(stored, now) :
       LET filename == header_image_name(file, t)
           written == uploads \cup {filename}
           kept == IF Truthy(customization.header_image)
                   THEN remove_if_exists(written, customization.header_image)
                   ELSE written
       IN  /\ uploads' = IF stored THEN kept ELSE uploads
           /\ customization' =
                  [header_image |-> IF stored THEN upload_path(filename)
                                    ELSE customization.header_image,
                   bg_style |-> IF Truthy(bg_style) THEN bg_style
                                ELSE customization.bg_style]
           /\ customization_file' = save_customization(customization')
           /\ now' = t
           /\ resp' = Resp("save_customization_route", 302, [redirect |-> "customize"])
    /\ UNCHANGED <<threads, posts, posts_file, pc>>

----------------------------------------------------------------------------
(* Requests handled concurrently.  app.run starts the development server,  *)
(* which handles every request in a thread of its own; the threads share   *)
(* the list posts, the objects in it and the posts file, and nothing locks *)
(* any of them.  A thread can be suspended between any two accesses to     *)
(* what is shared, so a handler takes one step for each: a reading of the  *)
(* clock, a step of an iterator over posts, a read or an assignment of a   *)
(* field another thread assigns, a list operation, the opening and the     *)
(* writing of the file.  What a thread alone sees (the request, the other  *)
(* fields of a post, which no API handler assigns) is read with the        *)
(* access that follows.                                                    *)

\* the threads of the server
Threads == {1, 2}

\* no BlogPost object
NoPost ==
    [id |-> None, title |-> None, content |-> None, created_at |-> None,
     image_path |-> None]

\* a thread that handles no request.  data, isnone: what get_json returned;
\* post_id: the id the request names; k: the number of elements the iterator
\* over posts has yielded; ref: the index in posts of the object the
\* handler's variable post or new_post refers to (0: none, or an object that
\* is not in the list, kept in obj); cur, cur_obj: the same for the object
\* the comprehension of save_posts is at; t_id: the reading the constructor
\* took for the id; read: the title read last; snapshot: the dicts the
\* comprehension has built; ret: the response the handler is returning;
\* status: the status code of the last response; overlapped: another request
\* was in flight while this one was; handled: the number of requests the
\* thread has taken
IdleThread ==
    [pc |-> "idle", route |-> "none", data |-> <<>>, isnone |-> FALSE,
     post_id |-> None, k |-> 0, ref |-> 0, obj |-> NoPost, cur |-> 0,
     cur_obj |-> NoPost, t_id |-> 0, read |-> None, snapshot |-> <<>>,
     ret |-> NoResp, status |-> 0, overlapped |-> FALSE, handled |-> 0]

\* the thread is handling a request
InFlight(th) == th.pc \notin {"idle", "done"}

\* the requests the threads of S have taken
RECURSIVE handled_by(_)
handled_by(S) ==
    IF S = {} THEN 0
    ELSE LET v == CHOOSE x \in S : TRUE
         IN  threads[v].handled + handled_by(S \ {v})

\* thread w can take a request: it handles none, and the server has taken
\* fewer than MaxRequests
CanTake(w) == ~InFlight(threads[w]) /\ handled_by(Threads) < MaxRequests

\* the threads after thread w has taken a request and become th
taken(w, th) ==
    [v \in Threads |->
        IF v = w
        THEN [th EXCEPT
                 !.handled = threads[w].handled + 1,
                 !.overlapped = \E u \in Threads \ {w} : InFlight(threads[u])]
        ELSE IF InFlight(threads[v])
        THEN [threads[v] EXCEPT !.overlapped = TRUE]
        ELSE threads[v]]

\* the threads after thread w has returned the response r
finish(w, r) ==
    [threads EXCEPT ![w] = [IdleThread EXCEPT
                               !.pc = "done", !.status = r.status,
                               !.handled = threads[w].handled,
                               !.overlapped = threads[w].overlapped]]

\* a thread that has the response r to return and holds nothing else
returning(r) == [IdleThread EXCEPT !.pc = "return", !.ret = r]

\* the thread th once its handler has the response r to return
returns(th, r) ==
    [returning(r) EXCEPT !.handled = th.handled, !.overlapped = th.overlapped]

\* the object the handler's variable post or new_post refers to
held(th) == IF th.ref > 0 THEN posts[th.ref] ELSE th.obj

\* the object the comprehension of save_posts is at
current(th) == IF th.cur > 0 THEN posts[th.cur] ELSE th.cur_obj

\* posts.remove(post) for the post at index i, as the references of the
\* thread th see it: the object leaves the list, later objects move up; the
\* count an iterator keeps stays as it is
detach(th, i) ==
    LET a == IF th.ref = i THEN [th EXCEPT !.ref = 0, !.obj = posts[i]]
             ELSE IF th.ref > i THEN [th EXCEPT !.ref = @ - 1]
             ELSE th
    IN  IF th.cur = i THEN [a EXCEPT !.cur = 0, !.cur_obj = posts[i]]
        ELSE IF th.cur > i THEN [a EXCEPT !.cur = @ - 1]
        ELSE a

\* the posts that threads are constructing or have constructed and not yet
\* appended
built ==
    Cardinality({v \in Threads :
                    threads[v].pc \in {"init_id", "init_created_at", "append"}})

\* POST /api/posts up to the call of the constructor
create_post_api_get_json(w, body) ==
    /\ pc = "up"
    /\ CanTake(w)
    /\ \E j \in get_json(body) :
         threads' =
            IF j.raised
            THEN taken(w, returning(handle_exception("create_post_api")))
            ELSE IF not_data(j) \/ "title" \notin DOMAIN j.obj
                                \/ "content" \notin DOMAIN j.obj
            THEN taken(w, returning(Resp("create_post_api", 400,
                              [error |-> "Title and content are required"])))
            ELSE taken(w, [IdleThread EXCEPT
                              !.pc = "init_id",
                              !.route = "create_post_api",
                              !.data = j.obj])
    /\ UNCHANGED <<posts, posts_file, customization, customization_file,
                   uploads, now, resp, pc>>

\* BlogPost.__init__: self.id = ... str(datetime.now().timestamp())
BlogPost_init_id(w) ==
    /\ threads[w].pc = "init_id"
    /\ \E t \in now..MaxClock :
         /\ now' = t
         /\ threads' = [threads EXCEPT ![w].pc = "init_created_at",
                                       ![w].t_id = t]
    /\ UNCHANGED <<posts, posts_file, customization, customization_file,
                   uploads, resp, pc>>

\* BlogPost.__init__: self.created_at = ... datetime.now().isoformat(), with
\* the assignments of title, content and image_path around it
BlogPost_init_created_at(w) ==
    /\ threads[w].pc = "init_created_at"
    /\ \E t \in now..MaxClock :
         LET th == threads[w]
         IN  /\ now' = t
             /\ threads' = [threads EXCEPT
                               ![w].pc = "append",
                               ![w].t_id = 0,
                               ![w].data = <<>>,
                               ![w].obj = BlogPost(th.data["title"],
                                                   th.data["content"], None,
                                                   None, None, th.t_id, t)]
    /\ UNCHANGED <<posts, posts_file, customization, customization_file,
                   uploads, resp, pc>>

\* POST /api/posts: posts.append(new_post)
create_post_api_append(w) ==
    /\ threads[w].pc = "append"
    /\ posts' = list_append(posts, threads[w].obj)
    /\ threads' = [threads EXCEPT ![w].pc = "save", ![w].ref = Len(posts'),
                                  ![w].obj = NoPost]
    /\ UNCHANGED <<posts_file, customization, customization_file, uploads,
                   now, resp, pc>>

\* PUT /api/posts/<post_id> up to the first step of the lookup
update_post_get_json(w, post_id, body) ==
    /\ pc = "up"
    /\ CanTake(w)
    /\ \E j \in get_json(body) :
         threads' =
            IF j.raised
            THEN taken(w, returning(handle_exception("update_post")))
            ELSE taken(w, [IdleThread EXCEPT
                              !.pc = "lookup",
                              !.route = "update_post",
                              !.data = j.obj,
                              !.isnone = j.isnone,
                              !.post_id = post_id])
    /\ UNCHANGED <<posts, posts_file, customization, customization_file,
                   uploads, now, resp, pc>>

\* DELETE /api/posts/<post_id> up to the first step of the lookup
delete_post_api_enter(w, post_id) ==
    /\ pc = "up"
    /\ CanTake(w)
    /\ threads' = taken(w, [IdleThread EXCEPT
                               !.pc = "lookup",
                               !.route = "delete_post_api",
                               !.post_id = post_id])
    /\ UNCHANGED <<posts, posts_file, customization, customization_file,
                   uploads, now, resp, pc>>

\* next((post for post in posts if post.id == post_id), None), one step of
\* the iterator over posts: it ends when it has yielded as many elements as
\* the list holds now, and yields the element at its count otherwise; when
\* it ends post is None and the handler has its 404 to return
lookup_next(w) ==
    /\ threads[w].pc = "lookup"
    /\ LET th == threads[w]
       IN  threads' =
              IF th.k >= Len(posts)
              THEN [threads EXCEPT
                       ![w] = returns(th, Resp(th.route, 404,
                                               [error |-> "Post not found"]))]
              ELSE IF posts[th.k + 1].id = th.post_id
              THEN [threads EXCEPT
                       ![w].ref = th.k + 1,
                       ![w].k = 0,
                       ![w].pc = IF th.route = "update_post"
                                 THEN "read_title" ELSE "remove"]
              ELSE [threads EXCEPT ![w].k = th.k + 1]
    /\ UNCHANGED <<posts, posts_file, customization, customization_file,
                   uploads, now, resp, pc>>

\* thread w assigns v to the field of the object its variable post refers to
assign_title(w, v) ==
    IF threads[w].ref > 0
    THEN /\ posts' = [posts EXCEPT ![threads[w].ref].title = v]
         /\ threads' = [threads EXCEPT ![w].pc = "read_content",
                                       ![w].read = None]
    ELSE /\ threads' = [threads EXCEPT ![w].pc = "read_content",
                                       ![w].read = None,
                                       ![w].obj.title = v]
         /\ UNCHANGED posts

assign_content(w, v) ==
    IF threads[w].ref > 0
    THEN /\ posts' = [posts EXCEPT ![threads[w].ref].content = v]
         /\ threads' = [threads EXCEPT ![w].pc = "save", ![w].read = None,
                                       ![w].data = <<>>]
    ELSE /\ threads' = [threads EXCEPT ![w].pc = "save", ![w].read = None,
                                       ![w].data = <<>>,
                                       ![w].obj.content = v]
         /\ UNCHANGED posts

\* PUT /api/posts/<post_id>: data.get('title', post.title) evaluates
\* data.get, which raises AttributeError when data is None, and post.title
update_post_read_title(w) ==
    /\ threads[w].pc = "read_title"
    /\ threads' =
          IF threads[w].isnone
          THEN [threads EXCEPT
                   ![w] = returns(threads[w], handle_exception("update_post"))]
          ELSE [threads EXCEPT ![w].pc = "assign_title",
                               ![w].read = held(threads[w]).title]
    /\ UNCHANGED <<posts, posts_file, customization, customization_file,
                   uploads, now, resp, pc>>

\* PUT /api/posts/<post_id>: post.title = data.get('title', ...)
update_post_assign_title(w) ==
    /\ threads[w].pc = "assign_title"
    /\ assign_title(w, GetOr(threads[w].data, "title", threads[w].read))
    /\ UNCHANGED <<posts_file, customization, customization_file, uploads,
                   now, resp, pc>>

\* PUT /api/posts/<post_id>: data.get('content', post.content) evaluates
\* post.content
update_post_read_content(w) ==
    /\ threads[w].pc = "read_content"
    /\ threads' = [threads EXCEPT ![w].pc = "assign_content",
                                  ![w].read = held(threads[w]).content]
    /\ UNCHANGED <<posts, posts_file, customization, customization_file,
                   uploads, now, resp, pc>>

\* PUT /api/posts/<post_id>: post.content = data.get('content', ...)
update_post_assign_content(w) ==
    /\ threads[w].pc = "assign_content"
    /\ assign_content(w, GetOr(threads[w].data, "content", threads[w].read))
    /\ UNCHANGED <<posts_file, customization, customization_file, uploads,
                   now, resp, pc>>

\* DELETE /api/posts/<post_id>: posts.remove(post), which raises ValueError
\* when another thread has removed the object since the lookup
delete_post_api_remove(w) ==
    /\ threads[w].pc = "remove"
    /\ LET i == threads[w].ref
       IN  IF i = 0
           THEN /\ threads' =
                     [threads EXCEPT
                         ![w] = returns(threads[w],
                                        handle_exception("delete_post_api"))]
                /\ UNCHANGED posts
           ELSE /\ posts' = remove_at(posts, i)
                /\ threads' = [v \in Threads |->
                                  IF v = w
                                  THEN [threads[w] EXCEPT !.pc = "save",
                                                          !.ref = 0,
                                                          !.post_id = None]
                                  ELSE detach(threads[v], i)]
    /\ UNCHANGED <<posts_file, customization, customization_file, uploads,
                   now, resp, pc>>

\* len(json.dumps(v)) for v a str without escapes or None
json_len(v) == IF v = None THEN 4 ELSE Len(v) + 2

\* the bytes json.dump(..., indent=2) writes for the members of d with their
\* keys in ks, one line each at depth 2, without the separating commas
RECURSIVE members_len(_, _)
members_len(d, ks) ==
    IF ks = {} THEN 0
    ELSE LET k == CHOOSE x \in ks : TRUE
         IN  1 + 4 + Len(k) + 2 + 2 + json_len(d[k]) + members_len(d, ks \ {k})

\* the bytes json.dump(..., indent=2) writes for the dict d at depth 1
dict_len(d) ==
    IF DOMAIN d = {} THEN 2
    ELSE 1 + members_len(d, DOMAIN d) + (Cardinality(DOMAIN d) - 1) + 1 + 2 + 1

\* the bytes json.dump(..., indent=2) writes for the elements of the list q,
\* one dict each at depth 1, without the separating commas
RECURSIVE elements_len(_)
elements_len(q) ==
    IF q = <<>> THEN 0 ELSE 1 + 2 + dict_len(Head(q)) + elements_len(Tail(q))

\* the bytes json.dump(q, f, indent=2) writes for the list q
dump_len(q) ==
    IF q = <<>> THEN 2 ELSE 1 + elements_len(q) + (Len(q) - 1) + 1 + 1

\* the size of the posts file: an absent or truncated file has none, a file
\* that is not JSON and records data is as long as the dump of that data
file_len(f) ==
    IF ~f.exists THEN 0
    ELSE IF f.valid \/ f.data # <<>> THEN dump_len(f.data)
    ELSE 0

\* open(POSTS_FILE, 'w') that leaves the content in place
open_without_truncate(f) == f

\* open(POSTS_FILE, 'w'): the file exists and is empty, which is not JSON
open_w(f) == CorruptFile

\* json.dump through a handle opened at offset 0, flushed when the with
\* block closes the file (a dump smaller than the buffer is one write): the
\* dump replaces the first bytes of the file, and what another handle wrote
\* beyond them stays, which leaves text that is not JSON
write_at_start(q, f) ==
    IF dump_len(q) >= file_len(f) THEN JsonFile(q)
    ELSE [exists |-> TRUE, decodes |-> TRUE, valid |-> FALSE, data |-> f.data]

\* save_posts: with open(POSTS_FILE, 'w') as f
save_posts_open(w) ==
    /\ threads[w].pc = "save"
    /\ posts_file' = open_w(posts_file)
    /\ threads' = [threads EXCEPT ![w].pc = "iterate", ![w].k = 0,
                                  ![w].snapshot = <<>>]
    /\ UNCHANGED <<posts, customization, customization_file, uploads, now, resp, pc>>

\* save_posts: [... for post in posts], one step of the iterator over posts:
\* it ends when it has yielded as many elements as the list holds now
save_posts_next(w) ==
    /\ threads[w].pc = "iterate"
    /\ LET th == threads[w]
       IN  threads' = IF th.k >= Len(posts)
                      THEN [threads EXCEPT ![w].pc = "dump", ![w].k = 0]
                      ELSE [threads EXCEPT ![w].pc = "to_dict_title",
                                           ![w].cur = th.k + 1,
                                           ![w].k = th.k + 1]
    /\ UNCHANGED <<posts, posts_file, customization, customization_file,
                   uploads, now, resp, pc>>

\* save_posts: post.to_dict() reads self.title
to_dict_title(w) ==
    /\ threads[w].pc = "to_dict_title"
    /\ threads' = [threads EXCEPT ![w].pc = "to_dict_content",
                                  ![w].read = current(threads[w]).title]
    /\ UNCHANGED <<posts, posts_file, customization, customization_file,
                   uploads, now, resp, pc>>

\* save_posts: post.to_dict() reads self.content and returns the dict, which
\* the comprehension adds to its list
to_dict_content(w) ==
    /\ threads[w].pc = "to_dict_content"
    /\ LET th == threads[w]
           d == to_dict([current(th) EXCEPT !.title = th.read])
       IN  threads' = [threads EXCEPT ![w].pc = "iterate",
                                      ![w].cur = 0,
                                      ![w].cur_obj = NoPost,
                                      ![w].read = None,
                                      ![w].snapshot = Append(th.snapshot, d)]
    /\ UNCHANGED <<posts, posts_file, customization, customization_file,
                   uploads, now, resp, pc>>

\* save_posts: json.dump(..., f, indent=2) and the end of the with block
save_posts_write(w) ==
    /\ threads[w].pc = "dump"
    /\ posts_file' = write_at_start(threads[w].snapshot, posts_file)
    /\ threads' = [threads EXCEPT ![w].pc = "respond", ![w].snapshot = <<>>]
    /\ UNCHANGED <<posts, customization, customization_file, uploads, now, resp, pc>>

\* the return statement of create_post_api and update_post: to_dict reads
\* the title of the object the handler refers to
handler_return_title(w) ==
    /\ threads[w].pc = "respond"
    /\ threads[w].route \in {"create_post_api", "update_post"}
    /\ threads' = [threads EXCEPT ![w].pc = "respond_content",
                                  ![w].read = held(threads[w]).title]
    /\ UNCHANGED <<posts, posts_file, customization, customization_file,
                   uploads, now, resp, pc>>

\* the return statement of create_post_api and update_post: to_dict reads
\* the content and returns the dict, of which jsonify makes the response
handler_return_content(w) ==
    /\ threads[w].pc = "respond_content"
    /\ LET th == threads[w]
           d == to_dict([held(th) EXCEPT !.title = th.read])
       IN  threads' =
              [threads EXCEPT
                  ![w] = returns(th, Resp(th.route,
                                          IF th.route = "create_post_api"
                                          THEN 201 ELSE 200, d))]
    /\ UNCHANGED <<posts, posts_file, customization, customization_file,
                   uploads, now, resp, pc>>

\* the return statement of delete_post_api after save_posts: the message
delete_post_api_return(w) ==
    /\ threads[w].pc = "respond"
    /\ threads[w].route = "delete_post_api"
    /\ threads' =
          [threads EXCEPT
              ![w] = returns(threads[w],
                             Resp("delete_post_api", 200,
                                  [message |-> "Post deleted successfully"]))]
    /\ UNCHANGED <<posts, posts_file, customization, customization_file,
                   uploads, now, resp, pc>>

\* the handler returns, or handle_exception does for it: the response goes
\* out and the thread is free
handler_return(w) ==
    /\ threads[w].pc = "return"
    /\ resp' = threads[w].ret
    /\ threads' = finish(w, resp')
    /\ UNCHANGED <<posts, posts_file, customization, customization_file,
                   uploads, now, pc>>

----------------------------------------------------------------------------
(* The environment: the clock, and the process being started again.        *)

\* time passes between two readings of datetime.now()
Tick ==
    /\ now < MaxClock
    /\ now' = now + 1
    /\ resp' = NoResp
    /\ UNCHANGED <<threads, posts, posts_file, customization, customization_file,
                   uploads, pc>>

\* the module is imported: posts = load_posts(), customization =
\* load_customization(); an exception of either ends the import, after the
\* readings of the clock load_posts has taken
import_module ==
    \E ts \in load_readings(posts_file, now) :
       /\ now' = last_reading(ts, now)
       /\ IF load_posts_raises(posts_file)
             \/ load_customization_raises(customization_file)
          THEN /\ pc' = "crashed"
               /\ posts' = <<>>
               /\ customization' = BlogCustomization
          ELSE /\ pc' = "up"
               /\ posts' = load_posts(posts_file, ts)
               /\ customization' = load_customization(customization_file)

\* the serving process is stopped and started again on the same files
Restart ==
    /\ pc = "up"
    /\ import_module
    /\ resp' = Imported
    /\ UNCHANGED <<threads, posts_file, customization_file, uploads>>

\* a fresh deployment: no posts file, no customization file, an empty
\* upload folder, and the module imported
Init ==
    /\ posts_file = MissingFile
    /\ customization_file = MissingFile
    /\ uploads = {}
    /\ now = 1
    /\ posts = load_posts(posts_file, <<>>)
    /\ customization = load_customization(customization_file)
    /\ resp = Imported
    /\ pc = "up"
    /\ threads = [w \in Threads |-> IdleThread]

\* the module is imported on the files found at start-up
Startup ==
    /\ pc = "down"
    /\ import_module
    /\ resp' = Imported
    /\ UNCHANGED <<threads, posts_file, customization_file, uploads>>

\* the collection has room for another post
Room == Len(posts) < MaxPosts

Next ==
    \/ get_posts
    \/ \E id \in PostIds : get_post(id)
    \/ \E id \in PostIds : edit_post_page(id)
    \/ Room /\ \E b \in Bodies : create_post_api(b)
    \/ \E id \in PostIds, b \in Bodies : update_post(id, b)
    \/ \E id \in PostIds : delete_post_api(id)
    \/ \E id \in PostIds : delete_post(id)
    \/ Room /\ \E f \in Forms, file \in NoFiles : create_post(f, file)
    \/ \E id \in PostIds, f \in Forms, file \in NoFiles :
           update_post_submit(id, f, file)
    \/ \E file \in NoFiles, bg \in BgStyles : save_customization_route(file, bg)
    \/ Tick
    \/ Restart

\* every handler, on requests without uploads
Spec == Init /\ [][Next]_vars

\* the bodies of the write scenario: none, or an object with strings
WriteBodies ==
    {AbsentBody} \cup
    {ObjectBody(d) : d \in {o \in ApiObjects : \A k \in DOMAIN o : o[k] # None}}

\* the upload fields of the write scenario: none, an image, a disallowed type
WriteFiles == {NoFile, File(<<"a", ".", "P", "N", "G">>), File(<<"b", ".", "t", "x", "t">>)}

\* upload fields of the image scenario: those of Files and a second image
ImageFiles == Files \cup {File(<<"c", ".", "J", "p", "g">>)}

\* the form of the image scenario: both fields filled in
ImageForms == {f \in Forms : DOMAIN f = {"title", "content"}}

NextWrite ==
    \/ Room /\ \E b \in WriteBodies : create_post_api(b)
    \/ \E id \in PostIds, b \in WriteBodies : update_post(id, b)
    \/ \E id \in PostIds : delete_post_api(id)
    \/ \E id \in PostIds : delete_post(id)
    \/ Room /\ \E f \in ImageForms, file \in WriteFiles : create_post(f, file)
    \/ \E id \in PostIds, f \in ImageForms, file \in WriteFiles :
           update_post_submit(id, f, file)
    \/ \E file \in WriteFiles, bg \in BgStyles : save_customization_route(file, bg)
    \/ Tick
    \/ Restart

\* the handlers that change the collection or the customization record, on
\* requests with and without uploads
SpecWrite == Init /\ [][NextWrite]_vars

\* the forms of the create scenario: both fields filled in, or none
CreateForms == {f \in Forms : DOMAIN f \in {{}, {"title", "content"}}}

\* the upload fields of the create scenario: none, or an image
CreateFiles == {NoFile, File(<<"a", ".", "P", "N", "G">>)}

NextCreate ==
    \/ /\ Len(posts) < MaxListed
       /\ \E b \in WriteBodies : create_post_api(b)
    \/ /\ Len(posts) < MaxListed
       /\ \E f \in CreateForms, file \in CreateFiles : create_post(f, file)
    \/ get_posts
    \/ Tick

\* the two handlers that create posts and the full listing, on a collection
\* of up to MaxListed posts
SpecCreate == Init /\ [][NextCreate]_vars

NextUpload ==
    \/ \E id \in PostIds : get_post(id)
    \/ \E id \in PostIds, b \in UploadBodies : update_post(id, b)
    \/ \E id \in PostIds : delete_post(id)
    \/ Room /\ \E f \in UploadForms, file \in Files : create_post(f, file)
    \/ \E id \in PostIds, f \in UploadForms, file \in Files :
           update_post_submit(id, f, file)
    \/ Tick
    \/ Restart

\* the form handlers of posts and the API update, on requests with uploads
SpecUpload == Init /\ [][NextUpload]_vars

\* the same handlers on the same requests, for the claim about image paths
SpecImagePaths == Init /\ [][NextUpload]_vars

\* the process is about to start on files it did not write
InitLoad ==
    /\ posts_file \in PostsFiles
    /\ customization_file \in CustomizationFiles
    /\ uploads = {}
    /\ now = 1
    /\ posts = <<>>
    /\ customization = BlogCustomization
    /\ resp = NoResp
    /\ pc = "down"
    /\ threads = [w \in Threads |-> IdleThread]

NextLoad == Startup

\* start-up on every file of PostsFiles and CustomizationFiles
SpecLoad == InitLoad /\ [][NextLoad]_vars

NextImages ==
    \/ Room /\ \E f \in ImageForms, file \in ImageFiles : create_post(f, file)
    \/ \E id \in PostIds, f \in ImageForms, file \in ImageFiles :
           update_post_submit(id, f, file)
    \/ \E file \in ImageFiles, bg \in {None} : save_customization_route(file, bg)
    \/ Tick

\* the three handlers that store images, on a fresh deployment
SpecImages == Init /\ [][NextImages]_vars

\* the bodies of the concurrent scenario: a full post, or null, to create
\* with; and null, text that is not JSON, or a new title and a new content
\* of the same lengths, to update with
NewPostBodies == {NullBody, ObjectBody([title |-> "T1", content |-> "C1"])}
UpdateBodies ==
    {NullBody, MalformedBody, ObjectBody([title |-> "T2", content |-> "C2"])}

\* the posts files an earlier run has left: none, or one with two posts,
\* created at the readings 1 and 2 of the clock
SavedFiles ==
    {MissingFile,
     save_posts(<<BlogPost("T1", "C1", None, None, None, 1, 1),
                  BlogPost("T1", "C1", None, None, None, 2, 2)>>)}

\* the ids the requests of the concurrent scenario name: those of the posts
\* an earlier run has left
SavedIds == UNION {{f.data[i].id : i \in 1..Len(f.data)} : f \in SavedFiles}

NextConcurrent ==
    \/ /\ Len(posts) + built < MaxPosts
       /\ \E w \in Threads, b \in NewPostBodies : create_post_api_get_json(w, b)
    \/ \E w \in Threads : BlogPost_init_id(w)
    \/ \E w \in Threads : BlogPost_init_created_at(w)
    \/ \E w \in Threads : create_post_api_append(w)
    \/ \E w \in Threads, id \in SavedIds, b \in UpdateBodies :
           update_post_get_json(w, id, b)
    \/ \E w \in Threads, id \in SavedIds : delete_post_api_enter(w, id)
    \/ \E w \in Threads : lookup_next(w)
    \/ \E w \in Threads : update_post_read_title(w)
    \/ \E w \in Threads : update_post_assign_title(w)
    \/ \E w \in Threads : update_post_read_content(w)
    \/ \E w \in Threads : update_post_assign_content(w)
    \/ \E w \in Threads : delete_post_api_remove(w)
    \/ \E w \in Threads : save_posts_open(w)
    \/ \E w \in Threads : save_posts_next(w)
    \/ \E w \in Threads : to_dict_title(w)
    \/ \E w \in Threads : to_dict_content(w)
    \/ \E w \in Threads : save_posts_write(w)
    \/ \E w \in Threads : handler_return_title(w)
    \/ \E w \in Threads : handler_return_content(w)
    \/ \E w \in Threads : delete_post_api_return(w)
    \/ \E w \in Threads : handler_return(w)

\* the module imported on a posts file an earlier run has left, the clock
\* standing at the last reading that run took
InitConcurrent ==
    /\ posts_file \in SavedFiles
    /\ customization_file = MissingFile
    /\ uploads = {}
    /\ now = IF posts_file.exists THEN 2 ELSE 1
    /\ posts \in {load_posts(posts_file, ts) : ts \in load_readings(posts_file, now)}
    /\ customization = load_customization(customization_file)
    /\ resp = Imported
    /\ pc = "up"
    /\ threads = [w \in Threads |-> IdleThread]

\* the API handlers that change the collection, each request in its thread
SpecConcurrent == InitConcurrent /\ [][NextConcurrent]_vars


----------------------------------------------------------------------------
(* Properties.                                                             *)

\* the posts file that holds the serialization of ps: a JSON array with, for
\* each post in order, its five fields
SerializedPosts(ps) ==
    [exists |-> TRUE, decodes |-> TRUE, valid |-> TRUE,
     data |-> [i \in 1..Len(ps) |->
                  [id |-> ps[i].id, title |-> ps[i].title,
                   content |-> ps[i].content, created_at |-> ps[i].created_at,
                   image_path |-> ps[i].image_path]]]

\* the customization file that holds the record c
SerializedCustomization(c) ==
    [exists |-> TRUE, decodes |-> TRUE, valid |-> TRUE,
     data |-> [header_image |-> c.header_image, bg_style |-> c.bg_style]]

\* the handlers that mutate the post collection
PostMutations ==
    {"create_post_api", "update_post", "delete_post_api",
     "create_post", "update_post_submit", "delete_post"}

\* the last request was answered with a success: 200, 201 or a redirect
Succeeded == resp.status \in {200, 201, 302}

C2_UniqueIds ==
    \A i, j \in 1..Len(posts) : i # j => posts[i].id # posts[j].id

\* the requests that name a post by id, with every input they can carry
ApiRequestFor(id) ==
    \/ get_post(id)
    \/ \E b \in Bodies : update_post(id, b)
    \/ delete_post_api(id)

FormRequestFor(id) ==
    \/ edit_post_page(id)
    \/ \E f \in Forms, file \in Files : update_post_submit(id, f, file)
    \/ delete_post(id)

\* C3: a get, update or delete request (API or form) for an id no post has
\* returns 404, with the body {error: "Post not found"} from the API, and
\* leaves the collection and the posts file unchanged.
C3_MissingIdIs404 ==
    [][\A id \in PostIds :
          find_post(posts, id) = 0 =>
             /\ ApiRequestFor(id) =>
                   /\ resp'.status = 404
                   /\ resp'.body = [error |-> "Post not found"]
                   /\ UNCHANGED <<posts, posts_file>>
             /\ FormRequestFor(id) =>
                   /\ resp'.status = 404
                   /\ UNCHANGED <<posts, posts_file>>]_vars

\* C4: a successful API create with title T and content C returns 201 with
\* a record carrying T, C and a generated id, grows the collection by one
\* and puts the new post last; a form create puts it first; the posts
\* already there keep their relative order, and the full listing shows the
\* new post.
C4_CreateInserts ==
    [][/\ (resp'.route = "create_post_api" /\ resp'.status = 201) =>
            /\ \E b \in WriteBodies : create_post_api(b)
            /\ \A b \in WriteBodies :
                 create_post_api(b) =>
                    LET n == Len(posts')
                    IN  /\ n = Len(posts) + 1
                        /\ \A i \in 1..Len(posts) : posts'[i] = posts[i]
                        /\ posts'[n].title = b.obj["title"]
                        /\ posts'[n].content = b.obj["content"]
                        /\ posts'[n].id \in {TimestampStr(t) : t \in now..now'}
                        /\ resp'.body.id = posts'[n].id
                        /\ resp'.body.title = b.obj["title"]
                        /\ resp'.body.content = b.obj["content"]
                        /\ listing(posts')[n] = resp'.body
       /\ (resp'.route = "create_post" /\ resp'.status = 302) =>
            /\ \E f \in CreateForms, file \in CreateFiles : create_post(f, file)
            /\ \A f \in CreateForms, file \in CreateFiles :
                 create_post(f, file) =>
                    /\ Len(posts') = Len(posts) + 1
                    /\ \A i \in 1..Len(posts) : posts'[i + 1] = posts[i]
                    /\ posts'[1].title = Get(f, "title")
                    /\ posts'[1].content = Get(f, "content")
                    /\ listing(posts')[1].id = posts'[1].id]_vars

\* C4 witness: an API create has just put a third post behind two posts
\* that differ, the first of them created by form with an image, and the
\* answer is the last record of the listing
C4_Witness ==
    /\ resp.route = "create_post_api" /\ resp.status = 201
    /\ Len(posts) = 3
    /\ posts[1].image_path # None
    /\ posts[2].image_path = None
    /\ posts[1].id # posts[2].id
    /\ resp.body = listing(posts)[3]

\* C5: an API create whose body is absent or lacks the title key or the
\* content key returns 400 with {error: "Title and content are required"}
\* and leaves the collection and the posts file unchanged.
C5_IncompleteIs400 ==
    [][\A b \in Bodies :
          (/\ \/ b.kind = "absent"
              \/ b.kind = "object" /\ ~({"title", "content"} \subseteq DOMAIN b.obj)
           /\ create_post_api(b)) =>
             /\ resp'.status = 400
             /\ resp'.body = [error |-> "Title and content are required"]
             /\ UNCHANGED <<posts, posts_file>>]_vars


\* the positions at which a step changes a post
Changed == {k \in 1..Len(posts) : posts'[k] # posts[k]}

\* what a step that changes the post at position k may change when it is a
\* successful update of the post with id post_id: the first post with that
\* id, not its id or created_at, and a field only when the request supplies it
UpdateFrame(k, post_id, has_title, has_content, has_image) ==
    /\ k = find_post(posts, post_id)
    /\ posts'[k].id = posts[k].id
    /\ posts'[k].created_at = posts[k].created_at
    /\ ~has_title => posts'[k].title = posts[k].title
    /\ ~has_content => posts'[k].content = posts[k].content
    /\ ~has_image => posts'[k].image_path = posts[k].image_path

\* C6: a successful update of post X (API or form) changes only the fields
\* of X the request supplies; X keeps its id, its created_at and its
\* position, and every other post is unchanged.
C6_UpdateChangesOnlySupplied ==
    [][/\ (resp'.route = "update_post" /\ resp'.status = 200) =>
            /\ Len(posts') = Len(posts)
            /\ Cardinality(Changed) <= 1
            /\ \A k \in Changed, id \in PostIds, b \in UploadBodies :
                 update_post(id, b) =>
                    UpdateFrame(k, id, "title" \in DOMAIN b.obj,
                                "content" \in DOMAIN b.obj, FALSE)
       /\ (resp'.route = "update_post_submit" /\ resp'.status = 302) =>
            /\ Len(posts') = Len(posts)
            /\ Cardinality(Changed) <= 1
            /\ \A k \in Changed, id \in PostIds, f \in UploadForms, file \in Files :
                 update_post_submit(id, f, file) =>
                    UpdateFrame(k, id, "title" \in DOMAIN f,
                                "content" \in DOMAIN f, has_file(file))]_vars

\* C6 witness: a form update has just succeeded on a collection of two
\* posts with different ids, one with an image and a title, one with neither
C6_Witness ==
    /\ resp.route = "update_post_submit" /\ resp.status = 302
    /\ Len(posts) = 2
    /\ posts[1].id # posts[2].id
    /\ posts[1].image_path = None /\ posts[1].title = None
    /\ posts[2].image_path # None /\ posts[2].title = "T1"

\* C7: after a delete of id X returns success the collection is one post
\* shorter, a get of X returns 404, and X is neither in the full listing nor
\* in the posts file.
C7_DeleteRemoves ==
    [][(resp'.route \in {"delete_post_api", "delete_post"}
        /\ resp'.status \in {200, 302}) =>
          \A id \in PostIds :
             (delete_post_api(id) \/ delete_post(id)) =>
                /\ Len(posts') = Len(posts) - 1
                /\ get_post_response(posts', id).status = 404
                /\ \A k \in 1..Len(posts') : listing(posts')[k].id # id
                /\ \A k \in 1..Len(posts_file'.data) :
                      posts_file'.data[k].id # id]_vars

\* C8: serialization round-trips: from_dict(to_dict(p)) equals p for every
\* post p of the collection, whatever the clock reads, so load_posts after
\* save_posts returns the collection; and from_dict(to_dict(c)) equals the
\* customization record c.
C8_RoundTrip ==
    /\ \A i \in 1..Len(posts) :
          /\ ~from_dict_raises(to_dict(posts[i]))
          /\ \A t_id, t_created \in 1..MaxClock :
                from_dict(to_dict(posts[i]), t_id, t_created) = posts[i]
    /\ ~load_posts_raises(save_posts(posts))
    /\ \A t \in 1..MaxClock :
          \A ts \in load_readings(save_posts(posts), t) :
             load_posts(save_posts(posts), ts) = posts
    /\ customization_from_dict(customization_to_dict(customization)) = customization
    /\ load_customization(save_customization(customization)) = customization

\* C8 witness: the process has started on a posts file of two elements, the
\* first with an image and a null id, the second without id and created_at,
\* and on a customization file with a header image and a style
C8_Witness ==
    /\ pc = "up"
    /\ Len(posts) = 2
    /\ posts[1].image_path = "uploads/x.png"
    /\ posts[1].title = None
    /\ posts[2].id \in {TimestampStr(t) : t \in 1..now}
    /\ "id" \notin DOMAIN posts_file.data[2]
    /\ customization = [header_image |-> "uploads/h.png", bg_style |-> "gradient3"]

\* an element of a posts file lacks title or content
LacksRequired(d) == "title" \notin DOMAIN d \/ "content" \notin DOMAIN d

\* C9: load is fail-soft on the file and fail-hard on its elements: on a
\* missing file or one whose content is not valid JSON, load_posts returns
\* the empty sequence and load_customization the default record, without
\* raising, so that the import succeeds when both files are such; on a JSON
\* array with an element lacking title or content, load_posts raises.
C9_LoadPolicy ==
    pc # "down" =>
       /\ (~posts_file.exists \/ ~posts_file.valid) =>
             /\ ~load_posts_raises(posts_file)
             /\ pc = "up" => posts = <<>>
       /\ (~customization_file.exists \/ ~customization_file.valid) =>
             /\ ~load_customization_raises(customization_file)
             /\ pc = "up" => customization
                    = [header_image |-> None, bg_style |-> "gradient1"]
       /\ ((~posts_file.exists \/ ~posts_file.valid)
           /\ (~customization_file.exists \/ ~customization_file.valid)) =>
             pc = "up"
       /\ (posts_file.exists /\ posts_file.valid
           /\ \E i \in 1..Len(posts_file.data) : LacksRequired(posts_file.data[i])) =>
             pc = "crashed"

\* C10: every post of the in-memory collection and of the posts file has a
\* title and a content, neither missing nor null.
C10_TitleAndContent ==
    /\ \A i \in 1..Len(posts) :
          posts[i].title # None /\ posts[i].content # None
    /\ \A i \in 1..Len(posts_file.data) :
          /\ ~LacksRequired(posts_file.data[i])
          /\ posts_file.data[i].title # None
          /\ posts_file.data[i].content # None

----------------------------------------------------------------------------
\* the relative path names a file that exists in the upload folder
image_exists(path) == \E n \in uploads : upload_path(n) = path

\* C11: after any sequence of form creations with images, post image updates
\* and header image updates, every image path stored in a post or in the
\* customization record names a file that exists in the upload folder.
C11_StoredImagesExist ==
    /\ \A i \in 1..Len(posts) :
           Truthy(posts[i].image_path) => image_exists(posts[i].image_path)
    /\ Truthy(customization.header_image) =>
           image_exists(customization.header_image)

----------------------------------------------------------------------------
\* C12: with no lock around the collection and the posts file, two requests
\* handled concurrently can lose an update.  A request that overlaps with no
\* other leaves the posts file equal to the collection when it writes, so
\* the loss C12_Witness shows is the work of the interleaving alone.
C12_SerialSavePersists ==
    [][\A w \in Threads :
          (/\ threads[w].pc = "dump"
           /\ threads'[w].pc = "respond"
           /\ ~threads[w].overlapped)
          => posts_file' = SerializedPosts(posts')]_vars

\* two overlapping requests have both returned success, and the posts file
\* is a complete dump that differs from the collection
C12_Witness ==
    /\ \A w \in Threads :
          /\ threads[w].pc = "done"
          /\ threads[w].overlapped
          /\ threads[w].status \in {200, 201}
    /\ posts_file.valid
    /\ posts_file # SerializedPosts(posts)

----------------------------------------------------------------------------
\* C13: once a post's image_path is set to a path, neither an API update nor
\* a form update (without a file, with an image, with a file of a disallowed
\* type) sets it back to none; the API update leaves every image_path as it
\* is.
C13_ImagePathNeverCleared ==
    [][resp'.route \in {"update_post", "update_post_submit"} =>
          /\ Len(posts') = Len(posts)
          /\ \A i \in 1..Len(posts) :
                /\ posts[i].image_path # None => posts'[i].image_path # None
                /\ resp'.route = "update_post" =>
                       posts'[i].image_path = posts[i].image_path]_vars

\* the API update has acted on a post whose image_path is set
C13_Witness ==
    /\ resp.route = "update_post"
    /\ resp.status = 200
    /\ resp.body.image_path # None

========================================================================
